---- MODULE Spec2Model ----
(***************************************************************************)
(* Model of the Notes application component (notes_frontend/src/App.js).   *)
(*                                                                         *)
(* The state is the component's useState cells plus the environment the    *)
(* handlers read: window.innerWidth, the millisecond clock behind          *)
(* Date.now() / new Date() (every call is a read of its own), and the      *)
(* blocking dialogs window.alert and window.confirm.                       *)
(* One action models one handled event: the handler, the                   *)
(* re-render it causes (including the in-place sort of the useMemo at      *)
(* App.js:54-63) and the seed effect of App.js:32-51.                      *)
(*                                                                         *)
(* trim(), toLowerCase() and includes() are computed on the characters of  *)
(* the strings (Chars), not assumed.  Note ids are                         *)
(* pairs <<prefix, number>>: <<"note", 1>> is "note1" and <<"note_", t>>   *)
(* is "note_" + t.  Timestamps are the clock values they were read at.     *)
(*                                                                         *)
(* The handlers marked PUBLIC_INTERFACE in App.js are the entry points of  *)
(* the component and are enabled in every mounted state; the anonymous     *)
(* callbacks of the form (onCancel, the inputs' onChange) exist only while *)
(* MainContent renders the form.                                           *)
(***************************************************************************)
EXTENDS Integers, Sequences, FiniteSets, TLC

\* ---------------------------------------------------------------- bounds
MaxNotes == 2     \* a create is modelled only while Len(notes) < MaxNotes

\* ------------------------------------------------------------- constants
Breakpoint == 768

null == <<"null">>

DraftTitles == { " ", " B" }
\* clearing the content field is the one content edit the model types
DraftContents == { "" }
SearchTerms == { "", "b" }
Widths == { 768, 1024 }
\* the values the millisecond clock returns: two consecutive milliseconds
Times == { 0, 1 }

AlertText == "Note title cannot be empty"
ConfirmText == "Are you sure you want to delete this note?"

Seed1Title == "Welcome to Note Organizer"
Seed1Content ==
  "This is your first note. Start organizing your thoughts!"
Seed2Title == "Features"
Seed2Content ==
  "- Create, edit, delete notes\n- Search instantly\n- Beautiful, responsive UI"

VARIABLES
  notes,          \* useState([])      : sequence of note records
  selectedNoteId, \* useState(null)
  sidebarOpen,    \* useState(window.innerWidth > 768)
  searchTerm,     \* useState("")
  mode,           \* useState("view")  : "view" | "create" | "edit"
  editTitle,      \* useState("")
  editContent,    \* useState("")
  innerWidth,     \* window.innerWidth
  clock,          \* last value read from the millisecond clock
  mounted,        \* the first render and its effects have run
  dialog          \* the blocking dialog shown by the last handled event

vars == << notes, selectedNoteId, sidebarOpen, searchTerm, mode, editTitle,
           editContent, innerWidth, clock, mounted, dialog >>

\* ------------------------------------------------------- string functions
\* The strings of the model are TLA+ strings; Chars gives the characters of
\* each string the model uses, and the string functions compute on them.
TitleCannotBeEmpty == "title cannot be empty"
DeleteThisNote == "delete this note"

Strings ==
  DraftTitles \cup DraftContents \cup SearchTerms
    \cup { "", "B", Seed1Title, Seed1Content, Seed2Title, Seed2Content,
           AlertText, ConfirmText, TitleCannotBeEmpty, DeleteThisNote }

Chars(s) ==
  CASE s = "" ->
         <<>>
    [] s = " " ->
         <<" ">>
    [] s = "B" ->
         <<"B">>
    [] s = " B" ->
         <<" ","B">>
    [] s = "b" ->
         <<"b">>
    [] s = "Welcome to Note Organizer" ->
         <<"W","e","l","c","o","m","e"," ","t","o"," ","N","o","t","e"," ","O","r","g","a","n","i","z","e","r">>
    [] s = "This is your first note. Start organizing your thoughts!" ->
         <<"T","h","i","s"," ","i","s"," ","y","o","u","r"," ","f","i","r","s","t"," ","n","o","t","e","."," ","S","t","a","r","t"," ","o","r","g","a","n","i","z","i","n","g"," ","y","o","u","r"," ","t","h","o","u","g","h","t","s","!">>
    [] s = "Features" ->
         <<"F","e","a","t","u","r","e","s">>
    [] s = "- Create, edit, delete notes\n- Search instantly\n- Beautiful, responsive UI" ->
         <<"-"," ","C","r","e","a","t","e",","," ","e","d","i","t",","," ","d","e","l","e","t","e"," ","n","o","t","e","s","\n","-"," ","S","e","a","r","c","h"," ","i","n","s","t","a","n","t","l","y","\n","-"," ","B","e","a","u","t","i","f","u","l",","," ","r","e","s","p","o","n","s","i","v","e"," ","U","I">>
    [] s = "Note title cannot be empty" ->
         <<"N","o","t","e"," ","t","i","t","l","e"," ","c","a","n","n","o","t"," ","b","e"," ","e","m","p","t","y">>
    [] s = "Are you sure you want to delete this note?" ->
         <<"A","r","e"," ","y","o","u"," ","s","u","r","e"," ","y","o","u"," ","w","a","n","t"," ","t","o"," ","d","e","l","e","t","e"," ","t","h","i","s"," ","n","o","t","e","?">>
    [] s = "title cannot be empty" ->
         <<"t","i","t","l","e"," ","c","a","n","n","o","t"," ","b","e"," ","e","m","p","t","y">>
    [] s = "delete this note" ->
         <<"d","e","l","e","t","e"," ","t","h","i","s"," ","n","o","t","e">>

\* the string with the given characters
Str(cs) == CHOOSE s \in Strings : Chars(s) = cs

Whitespace == { " ", "\n", "\t" }

RECURSIVE TrimStart(_)
TrimStart(cs) ==
  IF cs # <<>> /\ Head(cs) \in Whitespace THEN TrimStart(Tail(cs)) ELSE cs

RECURSIVE TrimEnd(_)
TrimEnd(cs) ==
  IF cs # <<>> /\ cs[Len(cs)] \in Whitespace
    THEN TrimEnd(SubSeq(cs, 1, Len(cs) - 1))
    ELSE cs

\* String.prototype.trim
trim(s) == Str(TrimEnd(TrimStart(Chars(s))))

UpperLetters ==
  <<"A","B","C","D","E","F","G","H","I","J","K","L","M","N","O","P","Q","R","S","T","U","V","W","X","Y","Z">>
LowerLetters ==
  <<"a","b","c","d","e","f","g","h","i","j","k","l","m","n","o","p","q","r","s","t","u","v","w","x","y","z">>

LowerChar(c) ==
  IF \E i \in 1..26 : UpperLetters[i] = c
    THEN LowerLetters[CHOOSE i \in 1..26 : UpperLetters[i] = c]
    ELSE c

\* the characters of s.toLowerCase(), tabulated for the strings of the model
LowerTable ==
  [s \in Strings |-> [i \in 1..Len(Chars(s)) |-> LowerChar(Chars(s)[i])]]

\* String.prototype.toLowerCase
toLowerCase(s) == LowerTable[s]

\* cs.includes(qs), on characters
IncludesChars(cs, qs) ==
  \E i \in 0..(Len(cs) - Len(qs)) : SubSeq(cs, i + 1, i + Len(qs)) = qs

\* String.prototype.includes
includes(s, q) == IncludesChars(Chars(s), Chars(q))

\* ------------------------------------------------------------ collection
sortByRecent_Ascending(a, b) == a.updatedAt - b.updatedAt

\* sortByRecent(a, b): negative when a is the more recent
sortByRecent(a, b) == b.updatedAt - a.updatedAt

RECURSIVE InsertSorted(_, _)
InsertSorted(x, s) ==
  IF s = <<>> THEN << x >>
  ELSE IF sortByRecent(x, Head(s)) <= 0 THEN << x >> \o s
  ELSE << Head(s) >> \o InsertSorted(x, Tail(s))

\* Array.prototype.sort(sortByRecent): a stable sort
RECURSIVE SortNotes(_)
SortNotes(s) ==
  IF s = <<>> THEN <<>> ELSE InsertSorted(Head(s), SortNotes(Tail(s)))

Matches_CaseSensitive(n, q) ==
  includes(n.title, q) \/ includes(n.content, q)

Matches(n, q) ==
  \/ IncludesChars(toLowerCase(n.title), toLowerCase(q))
  \/ IncludesChars(toLowerCase(n.content), toLowerCase(q))

\* the useMemo value handed to the Sidebar
filteredNotes(ns, q) ==
  IF q = "" THEN SortNotes(ns)
  ELSE SortNotes(SelectSeq(ns, LAMBDA n : Matches(n, q)))

\* The notes array after a render: with an empty search term the useMemo
\* sorts the state array itself (Array.prototype.sort sorts in place).
Rendered(ns, q) == IF q = "" THEN filteredNotes(ns, q) ELSE ns

Ids(ns) == { ns[i].id : i \in 1..Len(ns) }

HasSelected == selectedNoteId \in Ids(notes)

\* notes.find(n => n.id === selectedNoteId), when it finds one
selectedNote ==
  notes[CHOOSE i \in 1..Len(notes) :
          /\ notes[i].id = selectedNoteId
          /\ \A j \in 1..(i - 1) : notes[j].id # selectedNoteId]

SeedNotes(t1, t2, t3, t4) ==
  << [id |-> <<"note", 1>>, title |-> Seed1Title, content |-> Seed1Content,
      createdAt |-> t1, updatedAt |-> t2],
     [id |-> <<"note", 2>>, title |-> Seed2Title, content |-> Seed2Content,
      createdAt |-> t3, updatedAt |-> t4] >>

\* what a read of the clock can return once it has returned c
NotBefore(c) == { t \in Times : t >= c }

NoDialog == [kind |-> "none", message |-> ""]

Settle_NoSeed(ns, q, c) ==
  /\ notes' = Rendered(ns, q)
  /\ clock' = c

\* The re-render after a handler left ns as the notes state, followed by
\* the seed effect (which runs when the array is empty) and its re-render.
Settle(ns, q, c) ==
  IF Len(ns) = 0
    THEN \E t1 \in NotBefore(c) : \E t2 \in NotBefore(t1) :
         \E t3 \in NotBefore(t2) : \E t4 \in NotBefore(t3) :
           /\ notes' = Rendered(SeedNotes(t1, t2, t3, t4), q)
           /\ clock' = t4
    ELSE /\ notes' = Rendered(ns, q)
         /\ clock' = c

\* ------------------------------------------------------------------ Init
Init ==
  /\ notes = <<>>
  /\ selectedNoteId = null
  /\ innerWidth \in Widths
  /\ sidebarOpen = (innerWidth > Breakpoint)
  /\ searchTerm = ""
  /\ mode = "view"
  /\ editTitle = ""
  /\ editContent = ""
  /\ clock = 0
  /\ mounted = FALSE
  /\ dialog = NoDialog

\* --------------------------------------------------------------- actions
\* first render and the effects of App.js:23-51
Mount ==
  /\ ~mounted
  /\ mounted' = TRUE
  /\ Settle(notes, searchTerm, clock)
  /\ dialog' = NoDialog
  /\ UNCHANGED << selectedNoteId, sidebarOpen, searchTerm, mode, editTitle,
                  editContent, innerWidth >>

handleSelectNote_KeepMode(note) ==
  /\ mounted
  /\ selectedNoteId' = note.id
  /\ editTitle' = note.title
  /\ editContent' = note.content
  /\ dialog' = NoDialog
  /\ UNCHANGED << notes, sidebarOpen, searchTerm, innerWidth, clock, mounted,
                  mode >>

handleSelectNote(note) ==
  /\ mounted
  /\ selectedNoteId' = note.id
  /\ mode' = "view"
  /\ editTitle' = note.title
  /\ editContent' = note.content
  /\ dialog' = NoDialog
  /\ UNCHANGED << notes, sidebarOpen, searchTerm, innerWidth, clock, mounted >>

handleCreateNoteClick_KeepsSelection ==
  /\ mounted
  /\ mode' = "create"
  /\ editTitle' = ""
  /\ editContent' = ""
  /\ sidebarOpen' = IF innerWidth <= Breakpoint THEN FALSE ELSE sidebarOpen
  /\ dialog' = NoDialog
  /\ UNCHANGED << notes, selectedNoteId, searchTerm, innerWidth, clock,
                  mounted >>

handleCreateNoteClick_AlwaysCloses ==
  /\ mounted
  /\ mode' = "create"
  /\ editTitle' = ""
  /\ editContent' = ""
  /\ selectedNoteId' = null
  /\ sidebarOpen' = FALSE
  /\ dialog' = NoDialog
  /\ UNCHANGED << notes, searchTerm, innerWidth, clock, mounted >>

handleCreateNoteClick_StrictLess ==
  /\ mounted
  /\ mode' = "create"
  /\ editTitle' = ""
  /\ editContent' = ""
  /\ selectedNoteId' = null
  /\ sidebarOpen' = IF innerWidth < Breakpoint THEN FALSE ELSE sidebarOpen
  /\ dialog' = NoDialog
  /\ UNCHANGED << notes, searchTerm, innerWidth, clock, mounted >>

handleCreateNoteClick ==
  /\ mounted
  /\ mode' = "create"
  /\ editTitle' = ""
  /\ editContent' = ""
  /\ selectedNoteId' = null
  /\ sidebarOpen' = IF innerWidth <= Breakpoint THEN FALSE ELSE sidebarOpen
  /\ dialog' = NoDialog
  /\ UNCHANGED << notes, searchTerm, innerWidth, clock, mounted >>

handleEditNoteClick_KeepDraft ==
  /\ mounted
  /\ dialog' = NoDialog
  /\ IF ~HasSelected
       THEN UNCHANGED << mode, editTitle, editContent >>
       ELSE /\ mode' = "edit"
            /\ UNCHANGED << editTitle, editContent >>
  /\ UNCHANGED << notes, selectedNoteId, sidebarOpen, searchTerm, innerWidth,
                  clock, mounted >>

handleEditNoteClick_NoGuard ==
  /\ mounted
  /\ dialog' = NoDialog
  /\ mode' = "edit"
  /\ IF ~HasSelected
       THEN UNCHANGED << editTitle, editContent >>
       ELSE /\ editTitle' = selectedNote.title
            /\ editContent' = selectedNote.content
  /\ UNCHANGED << notes, selectedNoteId, sidebarOpen, searchTerm, innerWidth,
                  clock, mounted >>

handleEditNoteClick ==
  /\ mounted
  /\ dialog' = NoDialog
  /\ IF ~HasSelected
       THEN UNCHANGED << mode, editTitle, editContent >>
       ELSE /\ mode' = "edit"
            /\ editTitle' = selectedNote.title
            /\ editContent' = selectedNote.content
  /\ UNCHANGED << notes, selectedNoteId, sidebarOpen, searchTerm, innerWidth,
                  clock, mounted >>

RemainingNotes_FromVisible(ns, noteId) ==
  SelectSeq(filteredNotes(ns, searchTerm), LAMBDA n : n.id # noteId)

\* notes.filter(n => n.id !== noteId)
RemainingNotes(ns, noteId) == SelectSeq(ns, LAMBDA n : n.id # noteId)

DeleteConfirmed_Always(answer) == TRUE

\* if (window.confirm(...)): answer is what window.confirm returns
DeleteConfirmed(answer) == answer

SelectionAfterDelete_Next(noteId) ==
  IF RemainingNotes(notes, noteId) = <<>>
    THEN null
    ELSE RemainingNotes(notes, noteId)[1].id

SelectionAfterDelete_IfSelected(noteId) ==
  IF noteId = selectedNoteId THEN null ELSE selectedNoteId

\* setSelectedNoteId(null), whichever note was deleted
SelectionAfterDelete(noteId) == null

ModeAfterDelete_Keep == mode

\* setMode("view") after a confirmed delete
ModeAfterDelete == "view"

handleDeleteNoteClick(noteId, answer) ==
  /\ mounted
  /\ dialog' = [kind |-> "confirm", message |-> ConfirmText]
  /\ IF DeleteConfirmed(answer)
       THEN /\ Settle(RemainingNotes(notes, noteId), searchTerm, clock)
            /\ selectedNoteId' = SelectionAfterDelete(noteId)
            /\ mode' = ModeAfterDelete
       ELSE UNCHANGED << notes, clock, selectedNoteId, mode >>
  /\ UNCHANGED << sidebarOpen, searchTerm, editTitle, editContent, innerWidth,
                  mounted >>

TitleRejected_Never(title) == FALSE

TitleRejected_NoTrim(title) == title = ""

\* !editTitle.trim()
TitleRejected(title) == trim(title) = ""

EditedNotes_StaleStamp(ns, id, title, content, t) ==
  [i \in 1..Len(ns) |->
     IF ns[i].id = id
       THEN [ns[i] EXCEPT !.title = title, !.content = content]
       ELSE ns[i]]

\* notes.map(n => n.id === selectedNote.id ? {...n, title, content, updatedAt} : n)
EditedNotes(ns, id, title, content, t) ==
  [i \in 1..Len(ns) |->
     IF ns[i].id = id
       THEN [ns[i] EXCEPT !.title = title, !.content = content, !.updatedAt = t]
       ELSE ns[i]]

\* "note_" + Date.now()
NewNoteId(t) == <<"note_", t>>

NewNote_Trimmed(title, content, tId, tCreated, tUpdated) ==
  [id |-> <<"note_", tId>>, title |-> trim(title), content |-> content,
   createdAt |-> tCreated, updatedAt |-> tUpdated]

\* the three clock reads of App.js:126-130, in evaluation order
NewNote(title, content, tId, tCreated, tUpdated) ==
  [id |-> NewNoteId(tId), title |-> title, content |-> content,
   createdAt |-> tCreated, updatedAt |-> tUpdated]

\* [newNote, ...notes]
CreatedNotes(ns, newNote) == << newNote >> \o ns

handleSaveNote ==
  /\ mounted
  /\ IF TitleRejected(editTitle)
       THEN /\ dialog' = [kind |-> "alert", message |-> AlertText]
            /\ UNCHANGED << notes, selectedNoteId, mode, clock >>
       ELSE /\ dialog' = NoDialog
            /\ mode' = "view"
            /\ IF mode = "edit" /\ HasSelected
                 THEN /\ \E t \in NotBefore(clock) :
                           Settle(EditedNotes(notes, selectedNote.id, editTitle,
                                              editContent, t), searchTerm, t)
                      /\ selectedNoteId' = selectedNote.id
                 ELSE IF mode = "create"
                 THEN /\ Len(notes) < MaxNotes
                      /\ \E tId \in NotBefore(clock) : \E tC \in NotBefore(tId) :
                         \E tU \in NotBefore(tC) :
                           /\ Settle(CreatedNotes(notes,
                                        NewNote(editTitle, editContent, tId, tC, tU)),
                                     searchTerm, tU)
                           /\ selectedNoteId' = NewNoteId(tId)
                 ELSE UNCHANGED << notes, selectedNoteId, clock >>
  /\ UNCHANGED << sidebarOpen, searchTerm, editTitle, editContent, innerWidth,
                  mounted >>

handleSidebarToggle_Open ==
  /\ mounted
  /\ sidebarOpen' = TRUE
  /\ dialog' = NoDialog
  /\ UNCHANGED << notes, selectedNoteId, searchTerm, mode, editTitle,
                  editContent, innerWidth, clock, mounted >>

handleSidebarToggle ==
  /\ mounted
  /\ sidebarOpen' = ~sidebarOpen
  /\ dialog' = NoDialog
  /\ UNCHANGED << notes, selectedNoteId, searchTerm, mode, editTitle,
                  editContent, innerWidth, clock, mounted >>

handleSearchChange_DropsHidden(value) ==
  /\ mounted
  /\ searchTerm' = value
  /\ Settle(notes, value, clock)
  /\ selectedNoteId' =
       IF selectedNoteId \in Ids(filteredNotes(notes, value))
         THEN selectedNoteId
         ELSE null
  /\ dialog' = NoDialog
  /\ UNCHANGED << sidebarOpen, mode, editTitle, editContent, innerWidth,
                  mounted >>

handleSearchChange(value) ==
  /\ mounted
  /\ searchTerm' = value
  /\ Settle(notes, value, clock)
  /\ dialog' = NoDialog
  /\ UNCHANGED << selectedNoteId, sidebarOpen, mode, editTitle, editContent,
                  innerWidth, mounted >>

handleResize_GE(width) ==
  /\ mounted
  /\ innerWidth' = width
  /\ sidebarOpen' = (width >= Breakpoint)
  /\ dialog' = NoDialog
  /\ UNCHANGED << notes, selectedNoteId, searchTerm, mode, editTitle,
                  editContent, clock, mounted >>

\* the window resize listener; width is the new window.innerWidth
handleResize(width) ==
  /\ mounted
  /\ innerWidth' = width
  /\ sidebarOpen' = (width > Breakpoint)
  /\ dialog' = NoDialog
  /\ UNCHANGED << notes, selectedNoteId, searchTerm, mode, editTitle,
                  editContent, clock, mounted >>

\* MainContent renders the form
FormShown == mode = "create" \/ (mode = "edit" /\ HasSelected)

\* onChange of the title input
setEditTitle(value) ==
  /\ mounted
  /\ FormShown
  /\ editTitle' = value
  /\ dialog' = NoDialog
  /\ UNCHANGED << notes, selectedNoteId, sidebarOpen, searchTerm, mode,
                  editContent, innerWidth, clock, mounted >>

\* onChange of the content textarea
setEditContent(value) ==
  /\ mounted
  /\ FormShown
  /\ editContent' = value
  /\ dialog' = NoDialog
  /\ UNCHANGED << notes, selectedNoteId, sidebarOpen, searchTerm, mode,
                  editTitle, innerWidth, clock, mounted >>

onCancel_ClearsSelection ==
  /\ mounted
  /\ FormShown
  /\ mode' = "view"
  /\ selectedNoteId' = null
  /\ dialog' = NoDialog
  /\ UNCHANGED << notes, sidebarOpen, searchTerm, editTitle, editContent,
                  innerWidth, clock, mounted >>

onCancel ==
  /\ mounted
  /\ FormShown
  /\ mode' = "view"
  /\ dialog' = NoDialog
  /\ UNCHANGED << notes, selectedNoteId, sidebarOpen, searchTerm, editTitle,
                  editContent, innerWidth, clock, mounted >>

SelectStep ==
  \E i \in 1..Len(filteredNotes(notes, searchTerm)) :
    handleSelectNote(filteredNotes(notes, searchTerm)[i])

DeleteStep ==
  \E noteId \in Ids(notes) : \E answer \in BOOLEAN :
    handleDeleteNoteClick(noteId, answer)

Next ==
  \/ Mount
  \/ SelectStep
  \/ handleCreateNoteClick
  \/ handleEditNoteClick
  \/ DeleteStep
  \/ handleSaveNote
  \/ handleSidebarToggle
  \/ \E value \in SearchTerms : handleSearchChange(value)
  \/ \E width \in Widths : handleResize(width)
  \/ \E value \in DraftTitles : setEditTitle(value)
  \/ \E value \in DraftContents : setEditContent(value)
  \/ onCancel

Spec == Init /\ [][Next]_vars

\* ----------------------------------------------------- claim vocabulary
\* a title that is empty or consists only of whitespace
IsBlank(s) == \A i \in 1..Len(Chars(s)) : Chars(s)[i] \in Whitespace

\* s with its i-th element removed
WithoutIndex(s, i) == SubSeq(s, 1, i - 1) \o SubSeq(s, i + 1, Len(s))

\* the save handler accepts the draft while the create form is open
CreateSave == mode = "create" /\ ~IsBlank(editTitle) /\ handleSaveNote

\* the save handler accepts the draft while the edit form is open
EditSave == mode = "edit" /\ HasSelected /\ ~IsBlank(editTitle) /\ handleSaveNote

\* first note of ns with the given id
FindNote(ns, id) ==
  ns[CHOOSE i \in 1..Len(ns) :
       /\ ns[i].id = id
       /\ \A j \in 1..(i - 1) : ns[j].id # id]

IsSortedDesc(s) ==
  \A i \in 1..(Len(s) - 1) : s[i].updatedAt >= s[i + 1].updatedAt

\* ----------------------------------------------------------------- C1
\* C1: a save in creating or editing mode whose draft title is empty or
\* whitespace-only changes neither the notes, the selection, the mode nor
\* the draft fields, and raises an alert containing "title cannot be empty".
C1_BlankTitleRejected ==
  [][ (IsBlank(editTitle) /\ mode \in {"create", "edit"} /\ handleSaveNote)
        => /\ UNCHANGED << notes, selectedNoteId, mode, editTitle, editContent >>
           /\ dialog'.kind = "alert"
           /\ includes(dialog'.message, TitleCannotBeEmpty) ]_vars

C1_Witness ==
  /\ dialog.kind = "alert"
  /\ mode = "edit"
  /\ editTitle = " "
  /\ HasSelected
  /\ selectedNote.title # editTitle

\* ----------------------------------------------------------------- C2
\* C2: in every reachable state no two notes of the collection have the
\* same id.
C2_UniqueIds ==
  \A i, j \in 1..Len(notes) : i # j => notes[i].id # notes[j].id

\* ----------------------------------------------------------------- C3
\* C3: a save in creating mode with a non-blank draft title adds exactly one
\* note, whose title and content are the draft fields; that note becomes the
\* selected note and the mode becomes viewing.
C3_CreateAddsOne ==
  [][ CreateSave
        => /\ mode' = "view"
           /\ \E i \in 1..Len(notes') :
                /\ WithoutIndex(notes', i) = notes
                /\ notes'[i].title = editTitle
                /\ notes'[i].content = editContent
                /\ selectedNoteId' = notes'[i].id
                /\ FindNote(notes', selectedNoteId') = notes'[i] ]_vars

C3_Witness ==
  /\ mode = "view"
  /\ HasSelected
  /\ selectedNote.id[1] = "note_"
  /\ selectedNote.title = " B"
  /\ selectedNote.content = ""
  /\ Len(notes) = 2

\* ----------------------------------------------------------------- C4
\* C4: a save in editing mode with a non-blank draft title replaces the
\* selected note's title and content by the draft fields, sets its updatedAt
\* to the time of the save, keeps its id and createdAt, keeps it selected and
\* sets the mode to viewing; a draft equal to the note's fields is no
\* exception.
C4_EditReplaces ==
  [][ EditSave
        => /\ mode' = "view"
           /\ selectedNoteId' = selectedNoteId
           /\ selectedNoteId' \in Ids(notes')
           /\ FindNote(notes', selectedNoteId') =
                [id |-> selectedNote.id,
                 title |-> editTitle,
                 content |-> editContent,
                 createdAt |-> selectedNote.createdAt,
                 updatedAt |-> clock']
           /\ clock' >= clock ]_vars

C4_Witness ==
  /\ mode = "view"
  /\ selectedNoteId = <<"note", 1>>
  /\ HasSelected
  /\ selectedNote.title = " B"
  /\ selectedNote.content = ""
  /\ selectedNote.updatedAt = clock
  /\ selectedNote.createdAt < selectedNote.updatedAt

\* ----------------------------------------------------------------- C5
\* C5: after a confirmed delete of id the collection holds no note with that
\* id, and every note with another id that was present is still present,
\* unchanged.
C5_DeletedIsGone ==
  [][ \A id \in Ids(notes) :
        handleDeleteNoteClick(id, TRUE)
          => /\ id \notin Ids(notes')
             /\ \A k \in 1..Len(notes) :
                  notes[k].id # id
                    => \E m \in 1..Len(notes') : notes'[m] = notes[k] ]_vars

\* ----------------------------------------------------------------- C6
\* C6: a confirmed delete of the selected note leaves no note selected and
\* the mode equal to viewing.
C6_DeleteSelectedClears ==
  [][ \A id \in Ids(notes) :
        (handleDeleteNoteClick(id, TRUE) /\ id = selectedNoteId)
          => (selectedNoteId' = null /\ mode' = "view") ]_vars

C6_Witness ==
  /\ dialog.kind = "confirm"
  /\ selectedNoteId = null
  /\ mode = "view"
  /\ editTitle = Seed1Title
  /\ Ids(notes) = { <<"note", 2>> }

C8_DeleteAsksFirst ==
  [][ \A answer \in BOOLEAN : \A i \in 1..Len(notes) :
        handleDeleteNoteClick(notes[i].id, answer)
          => /\ dialog'.kind = "confirm"
             /\ includes(dialog'.message, DeleteThisNote)
             /\ (~answer =>
                   UNCHANGED << notes, selectedNoteId, mode, editTitle,
                                editContent >>) ]_vars

C8_Witness ==
  /\ dialog.kind = "confirm"
  /\ HasSelected
  /\ mode = "edit"
  /\ editTitle = " B"
  /\ selectedNote.title # editTitle

\* ----------------------------------------------------------------- C9
\* C9: selecting a note, in any mode, makes it the selected note, sets the
\* mode to viewing and leaves the collection as it was, so no draft value
\* reaches a note.
C9_SelectLeavesNotes ==
  [][ \A i \in 1..Len(notes) :
        handleSelectNote(notes[i])
          => /\ selectedNoteId' = notes[i].id
             /\ mode' = "view"
             /\ notes' = notes ]_vars

C9_Witness ==
  /\ mode = "view"
  /\ HasSelected
  /\ dialog.kind = "none"
  /\ editTitle = selectedNote.title
  /\ editContent = selectedNote.content
  /\ selectedNoteId = <<"note", 2>>
  /\ searchTerm = "b"

\* ---------------------------------------------------------------- C10
\* C10: the list shown for the empty search query is always ordered by
\* updatedAt, most recent first, and right after a successful create the new
\* note is its first element.
C10_SortedAndNewFirst ==
  /\ [](IsSortedDesc(filteredNotes(notes, "")))
  /\ [](searchTerm = "" => filteredNotes(notes, searchTerm) = notes)
  /\ [][ CreateSave
           => /\ filteredNotes(notes', "")[1].id = selectedNoteId'
              /\ filteredNotes(notes', "")[1].title = editTitle
              /\ filteredNotes(notes', "")[1].updatedAt = clock'
              /\ WithoutIndex(filteredNotes(notes', ""), 1)
                   = filteredNotes(notes, "") ]_vars

C10_Witness ==
  /\ searchTerm = ""
  /\ Len(notes) = 2
  /\ notes[1].id[1] = "note_"
  /\ notes[1].updatedAt = notes[2].updatedAt
  /\ notes[1].id = selectedNoteId
  /\ notes[2].title = " B"

\* ----------------------------------------------------------------- C11
\* s contains q when letter case is ignored, character by character
ContainsIgnoringCase(s, q) ==
  \E i \in 0..(Len(Chars(s)) - Len(Chars(q))) :
    \A k \in 1..Len(Chars(q)) :
      LowerChar(Chars(s)[i + k]) = LowerChar(Chars(q)[k])

\* the reference filter: the title or the content contains the query
InReference(n, q) ==
  ContainsIgnoringCase(n.title, q) \/ ContainsIgnoringCase(n.content, q)

\* number of positions of s that hold r
Occurrences(s, r) == Cardinality({ i \in 1..Len(s) : s[i] = r })

\* C11: in every state the visible list holds exactly the notes of the
\* collection whose title or content contains the search term ignoring
\* letter case (each as often as the collection holds it), ordered by
\* updatedAt descending; with the empty search term it holds every note;
\* it never holds a note that is not in the collection.
C11_VisibleIsReference ==
  LET visible == filteredNotes(notes, searchTerm) IN
    /\ IsSortedDesc(visible)
    /\ \A i \in 1..Len(visible) :
         /\ InReference(visible[i], searchTerm)
         /\ \E j \in 1..Len(notes) : notes[j] = visible[i]
    /\ \A j \in 1..Len(notes) :
         Occurrences(visible, notes[j]) =
           IF InReference(notes[j], searchTerm)
             THEN Occurrences(notes, notes[j])
             ELSE 0
    /\ searchTerm = "" => Len(visible) = Len(notes)

\* a lower-case search term shows the note titled " B" and hides the other
C11_Witness ==
  /\ searchTerm = "b"
  /\ Len(notes) = 2
  /\ Len(filteredNotes(notes, searchTerm)) = 1
  /\ filteredNotes(notes, searchTerm)[1].title = " B"

\* ----------------------------------------------------------------- C12
\* the save handler accepts the draft
SaveAccepted == ~IsBlank(editTitle) /\ handleSaveNote

\* a note of the collection is selected
SelectAny == \E i \in 1..Len(notes) : handleSelectNote(notes[i])

\* a deletion of the selected note is confirmed
SelectedDeleted == HasSelected /\ handleDeleteNoteClick(selectedNoteId, TRUE)

\* a deletion of some note of the collection is confirmed
AnyDeleted == \E i \in 1..Len(notes) : handleDeleteNoteClick(notes[i].id, TRUE)

C13_EditingHasSelection ==
  mode = "edit" => (selectedNoteId # null /\ selectedNoteId \in Ids(notes))

\* the edit form is open on a note made by a create, next to another note
C13_Witness ==
  /\ mode = "edit"
  /\ Len(selectedNoteId) = 2
  /\ selectedNoteId[1] = "note_"
  /\ selectedNoteId \in Ids(notes)
  /\ Len(notes) = 2

\* ----------------------------------------------------------------- C14
\* C14: an edit request with no note selected changes neither the mode, the
\* draft fields, the selection nor the collection; with a note selected it
\* sets the mode to editing and the draft title and content to the title
\* and content of the note with the selected id, and leaves the collection
\* and the selection unchanged.
C14_EditRequested ==
  [][ handleEditNoteClick =>
        IF selectedNoteId \notin Ids(notes)
          THEN UNCHANGED << mode, editTitle, editContent, selectedNoteId,
                            notes >>
          ELSE /\ mode' = "edit"
               /\ \A i \in 1..Len(notes) :
                    notes[i].id = selectedNoteId =>
                      /\ editTitle' = notes[i].title
                      /\ editContent' = notes[i].content
               /\ UNCHANGED << selectedNoteId, notes >> ]_vars

\* the edit form shows the fields of the selected note, whose title was
\* typed in earlier
C14_Witness ==
  /\ mode = "edit"
  /\ HasSelected
  /\ editTitle = " B"
  /\ selectedNote.title = " B"
  /\ editContent = selectedNote.content
  /\ dialog = NoDialog

\* ----------------------------------------------------------------- C15
\* C15: a create request sets the mode to creating and both draft fields to
\* the empty string and leaves the collection unchanged; it closes the
\* sidebar when the viewport width is at or below 768 and leaves the sidebar
\* as it was when the width is above 768.
C15_CreateRequested ==
  [][ handleCreateNoteClick =>
        /\ mode' = "create"
        /\ editTitle' = ""
        /\ editContent' = ""
        /\ notes' = notes
        /\ (innerWidth <= 768 => sidebarOpen' = FALSE)
        /\ (innerWidth > 768 => sidebarOpen' = sidebarOpen) ]_vars

\* the empty create form at width 768, with the sidebar closed
C15_Witness ==
  /\ mode = "create"
  /\ editTitle = ""
  /\ editContent = ""
  /\ innerWidth = 768
  /\ ~sidebarOpen
  /\ Len(notes) > 0

\* ----------------------------------------------------------------- C16
\* C16: in creating or editing mode a cancel can always be taken, and it
\* sets the mode to viewing in one step and leaves the notes collection and
\* the selected note id unchanged.
C16_CancelRequested ==
  /\ [](mounted /\ mode \in {"create", "edit"} => ENABLED onCancel)
  /\ [][ onCancel =>
           /\ mode \in {"create", "edit"}
           /\ mode' = "view"
           /\ notes' = notes
           /\ selectedNoteId' = selectedNoteId ]_vars

\* back in viewing mode after a cancelled edit: the draft title that was
\* typed in is not the title of the selected note
C16_Witness ==
  /\ mode = "view"
  /\ HasSelected
  /\ editTitle = " B"
  /\ selectedNote.title # " B"
  /\ \A i \in 1..Len(notes) : notes[i].title # " B"

\* ----------------------------------------------------------------- C17
\* C17: initially the sidebar is open exactly when the viewport width is
\* above 768, and right after every resize to width w it is open exactly
\* when w is above 768 (closed at 768 itself), whatever it was before.
C17_ResizeSetsSidebar ==
  /\ sidebarOpen = (innerWidth > 768)
  /\ [](~mounted => sidebarOpen = (innerWidth > 768))
  /\ [][ \A w \in Widths :
           handleResize(w) => (innerWidth' = w /\ sidebarOpen' = (w > 768)) ]_vars

\* width 768 with the sidebar closed while a note is being edited
C17_Witness ==
  /\ mounted
  /\ innerWidth = 768
  /\ sidebarOpen = FALSE
  /\ mode = "edit"

\* ----------------------------------------------------------------- C18
\* C18: a sidebar toggle negates sidebarOpen and changes neither the
\* collection, the selection, the mode, the draft fields nor the search
\* term; a second toggle right after it gives back the original value, and
\* the toggle can be taken in every mounted state.
C18_ToggleNegates ==
  /\ [](mounted => ENABLED handleSidebarToggle)
  /\ [][ handleSidebarToggle =>
           /\ sidebarOpen' = ~sidebarOpen
           /\ (~sidebarOpen') = sidebarOpen
           /\ UNCHANGED << notes, selectedNoteId, mode, editTitle,
                           editContent, searchTerm >> ]_vars

\* the sidebar is open at width 768, in the middle of an edit
C18_Witness ==
  /\ mounted
  /\ sidebarOpen
  /\ innerWidth = 768
  /\ mode = "edit"
  /\ HasSelected

\* ----------------------------------------------------------------- C19
\* sidebarOpen is not the value derived from the viewport width
Deviates == sidebarOpen # (innerWidth > 768)

\* C19: sidebarOpen equals (viewport width > 768) initially and after every
\* resize, and only a sidebar toggle takes a state where it equals that
\* value to a state where it differs from it.
C19_OnlyToggleDeviates ==
  /\ [](~mounted => ~Deviates)
  /\ [][ /\ (~Deviates /\ Deviates') => handleSidebarToggle
         /\ (\E w \in Widths : handleResize(w)) => ~Deviates' ]_vars

\* the sidebar is closed at width 1024
C19_Witness ==
  /\ mounted
  /\ innerWidth = 1024
  /\ ~sidebarOpen

\* ----------------------------------------------------------------- C20
\* C20: the note added by an accepted save in creating mode has createdAt
\* equal to updatedAt in the state that first holds it.
C20_CreatedEqualsUpdated ==
  [][ CreateSave =>
        \A i \in 1..Len(notes') :
          WithoutIndex(notes', i) = notes =>
            notes'[i].createdAt = notes'[i].updatedAt ]_vars

\* ----------------------------------------------------------------- C21
\* C21: in every state every note of the collection has a title that is not
\* empty once leading and trailing whitespace is removed.
C21_TitlesNotBlank ==
  \A i \in 1..Len(notes) : trim(notes[i].title) # ""

\* a save with a whitespace-only draft title was just refused while the
\* collection holds a note with a typed-in title
C21_Witness ==
  /\ dialog.kind = "alert"
  /\ editTitle = " "
  /\ Len(notes) = 2
  /\ \E i \in 1..Len(notes) : notes[i].title = " B"

\* ----------------------------------------------------------------- C22
\* C22: in every state the selected note id is null or is the id of exactly
\* one note of the collection.
C22_SelectionIsOneNote ==
  \/ selectedNoteId = null
  \/ Cardinality({ i \in 1..Len(notes) : notes[i].id = selectedNoteId }) = 1

\* ----------------------------------------------------------------- C23
\* every note of ns that satisfies Keep is in ms at least as often as in ns
KeptIn(ns, ms, Keep(_)) ==
  \A k \in 1..Len(ns) :
    Keep(ns[k]) => Occurrences(ms, ns[k]) >= Occurrences(ns, ns[k])

IsSeeded(ns) ==
  /\ Len(ns) = 2
  /\ \E i, j \in 1..2 :
       /\ ns[i].id = <<"note", 1>>
       /\ ns[i].title = "Welcome to Note Organizer"
       /\ ns[j].id = <<"note", 2>>
       /\ ns[j].title = "Features"

SameNotes(a, b) ==
  /\ Len(a) = Len(b)
  /\ \A k \in 1..Len(a) : Occurrences(a, a[k]) = Occurrences(b, a[k])

\* C25: an accepted edit changes one note only: the number of notes is
\* unchanged, and apart from one note with the selected id every note is
\* the same before and after, in all its fields.
C25_EditChangesOneNote ==
  [][ EditSave =>
        /\ Len(notes') = Len(notes)
        /\ \E i \in 1..Len(notes) : \E j \in 1..Len(notes') :
             /\ notes[i].id = selectedNoteId
             /\ notes'[j].id = selectedNoteId
             /\ SameNotes(WithoutIndex(notes, i), WithoutIndex(notes', j)) ]_vars

\* ----------------------------------------------------------------- C26
\* C26: in every state, creating mode implies that the selected note id is
\* null; a create request clears the selection, and a cancel in creating
\* mode ends in viewing mode with the selected note id still null.
C26_CreatingHasNoSelection ==
  /\ [](mode = "create" => selectedNoteId = null)
  /\ [][ /\ handleCreateNoteClick => selectedNoteId' = null
         /\ (mode = "create" /\ onCancel) =>
              (mode' = "view" /\ selectedNoteId' = null) ]_vars

\* viewing mode with nothing selected and a typed-in draft title that no
\* note carries: a create was cancelled
C26_Witness ==
  /\ mode = "view"
  /\ selectedNoteId = null
  /\ editTitle = " B"
  /\ dialog = NoDialog
  /\ \A i \in 1..Len(notes) : notes[i].title # " B"

\* ----------------------------------------------------------------- C27
\* C27: a change of the search term sets the search term and leaves the
\* notes of the collection (the same notes with the same fields), the
\* selected note id, the mode and the draft fields as they were; a selected
\* note stays selected also when the new term hides it.
C27_SearchChangesOnlyQuery ==
  [][ \A value \in SearchTerms :
        handleSearchChange(value) =>
          /\ searchTerm' = value
          /\ SameNotes(notes, notes')
          /\ UNCHANGED << selectedNoteId, mode, editTitle, editContent >>
          /\ (selectedNoteId \in Ids(notes) => selectedNoteId' \in Ids(notes')) ]_vars

\* the selected note is being edited while the search term hides it
C27_Witness ==
  /\ searchTerm = "b"
  /\ mode = "edit"
  /\ selectedNoteId = <<"note", 1>>
  /\ selectedNoteId \in Ids(notes)
  /\ selectedNoteId \notin Ids(filteredNotes(notes, searchTerm))

====
